---- MODULE Spec2Model ----
(***************************************************************************)
(* The wedding LINE bot: the webhook, the per-user conversation sessions   *)
(* and the two stores, in its two builds:                                  *)
(*   "db"  - src/index.js           (Supabase tables, image/file slips)    *)
(*   "mem" - src/unnamed/part_000   (in-memory Maps, text only)            *)
(* A text is a sequence of tokens.  A one-character string is that         *)
(* character; a longer string names one literal of the source (a Thai or   *)
(* ASCII phrase) that the code compares against, see TokLen.               *)
(***************************************************************************)
EXTENDS Integers, Sequences, FiniteSets, TLC

VARIABLES variant, sessions, rsvps, blessings, rsvpStore, blessingStore,
          reqs, out, res, delivered

vars == <<variant, sessions, rsvps, blessings, rsvpStore, blessingStore,
          reqs, out, res, delivered>>

(* ------------------------------ bounds -------------------------------- *)
\* events delivered to the webhook in one run of Spec
MaxEvents == 3
\* events delivered in one run of SpecFlow (the confirmation flow alone)
MaxFlowEvents == 5
\* events delivered in a run of the well-wish flow
MaxBlessEvents == 4
\* events delivered in a run with two users
MaxTwoEvents == 4

(* ------------------------- program constants -------------------------- *)
\* index.js:243  fullName.length < 2
MinNameDb == 2
\* index.js:263  n > 50
MaxGuestsDb == 50
\* part_000:89   fullName.length < 3
MinNameMem == 3
\* part_000:107  isNumberInRange(n, 1, 20)
MaxGuestsMem == 20
\* index.js:290 and part_000:137  msg.length < 2
MinBlessing == 2

Users == {"U1", "U2"}
\* event.source.userId is absent (group chat, unfollowed user)
NoUserId == "none"

(* ------------------------------- texts -------------------------------- *)
Digits == {"0", "1", "2", "3", "4", "5", "6", "7", "8", "9"}

DigitVal(c) ==
  CASE c = "0" -> 0 [] c = "1" -> 1 [] c = "2" -> 2 [] c = "3" -> 3
    [] c = "4" -> 4 [] c = "5" -> 5 [] c = "6" -> 6 [] c = "7" -> 7
    [] c = "8" -> 8 [] c = "9" -> 9

\* The literals the two handlers compare a text against.
Words == {"W_DETAILS", "W_TRAVEL", "W_BLESSCARD", "W_BLESS", "W_CONFIRMCARD",
          "RSVP", "rsvp", "W_BEGIN", "W_EDIT", "W_GIFT", "W_SLIP", "W_MENU"}

\* String.length of a token, in UTF-16 code units.
TokLen(c) ==
  CASE c = "W_DETAILS"     -> 13   \* "รายละเอียดงาน"
    [] c = "W_TRAVEL"      -> 10   \* "การเดินทาง"
    [] c = "W_BLESSCARD"   -> 7    \* "คำอวยพร"
    [] c = "W_BLESS"       -> 5    \* "อวยพร"
    [] c = "W_CONFIRMCARD" -> 15   \* "ยืนยันมาร่วมงาน"
    [] c = "RSVP"          -> 4
    [] c = "rsvp"          -> 4
    [] c = "W_BEGIN"       -> 19   \* "ยืนยัน เจอกันแน่นอน"
    [] c = "W_EDIT"        -> 14   \* "แก้ไขการยืนยัน"
    [] c = "W_GIFT"        -> 7    \* "ของขวัญ"
    [] c = "W_SLIP"        -> 7    \* "แนบสลิป"
    [] c = "W_MENU"        -> 4    \* "เมนู"
    [] OTHER               -> 1

\* String.prototype.toLowerCase, token by token
toLowerCase(text) ==
  [i \in 1..Len(text) |-> IF text[i] = "RSVP" THEN "rsvp" ELSE text[i]]

\* String.prototype.length
StrLen(text) ==
  LET RECURSIVE Sum(_)
      Sum(i) == IF i = 0 THEN 0 ELSE TokLen(text[i]) + Sum(i - 1)
  IN Sum(Len(text))

\* String.prototype.includes for one literal of the source
includes(text, w) == \E i \in 1..Len(text) : text[i] = w

\* String.prototype.trim
trim(t) ==
  LET NonSpace == {i \in 1..Len(t) : t[i] # " "}
      Lo == CHOOSE i \in NonSpace : \A j \in NonSpace : i <= j
      Hi == CHOOSE i \in NonSpace : \A j \in NonSpace : j <= i
  IN IF NonSpace = {} THEN <<>> ELSE SubSeq(t, Lo, Hi)

normalizeText(t) == trim(t)

\* NaN of parseInt, null of isNumberLike
NaN == -1000
null == -1001

\* the value of the decimal digits text[lo..hi]
DecimalValue(text, lo, hi) ==
  LET RECURSIVE Val(_)
      Val(i) == IF i < lo THEN 0 ELSE 10 * Val(i - 1) + DigitVal(text[i])
  IN Val(hi)

\* the end of the run of digits that starts at lo
RunEnd(text, lo) ==
  CHOOSE hi \in lo..Len(text) :
    /\ \A j \in lo..hi : text[j] \in Digits
    /\ (hi = Len(text) \/ text[hi + 1] \notin Digits)

\* index.js: text.match(/\d+/), then parseInt(m[0], 10)
isNumberLike(text) ==
  LET At == {i \in 1..Len(text) : text[i] \in Digits}
      lo == CHOOSE i \in At : \A j \in At : i <= j
  IN IF At = {} THEN null ELSE DecimalValue(text, lo, RunEnd(text, lo))

\* parseInt(text, 10) of a trimmed text: an optional sign, then the leading digits
parseInt10(text) ==
  LET signed == Len(text) > 0 /\ text[1] \in {"-", "+"}
      lo == IF signed THEN 2 ELSE 1
      mag == DecimalValue(text, lo, RunEnd(text, lo))
  IN IF lo > Len(text) \/ text[lo] \notin Digits THEN NaN
     ELSE IF signed /\ text[1] = "-" THEN 0 - mag ELSE mag

\* a range test that forgets the upper bound
isNumberInRange_NoUpperBound(n, min, max) == n # NaN /\ n >= min
\* a range test that excludes the upper bound itself
isNumberInRange_StrictUpper(n, min, max) == n # NaN /\ n >= min /\ n < max
\* a range test that forgets the lower bound
isNumberInRange_NoLowerBound(n, min, max) == n # NaN /\ n <= max
isNumberInRange(n, min, max) == n # NaN /\ n >= min /\ n <= max


(* ------------------------------ events -------------------------------- *)
\* The raw texts a user may send (before trim).  "ab" stands for a two-letter
\* word such as "คน".
Texts ==
  { <<>>, <<" ", "a", " ">>, <<"a", "b">>, <<"a", "b", "c">>,
    <<"0">>, <<"1">>, <<"2", " ", "a", "b">>, <<"a", "b", " ", "2">>,
    <<"2", "0">>, <<"2", "1">>, <<"5", "0">>, <<"5", "1">>, <<"-", "5">>,
    <<"W_DETAILS">>, <<"a", " ", "W_DETAILS">>, <<"W_TRAVEL">>,
    <<"W_BLESSCARD">>, <<"W_BLESS">>, <<"W_CONFIRMCARD">>, <<"RSVP">>,
    <<" ", "W_BEGIN">>, <<"W_EDIT">>, <<"W_GIFT">>, <<"W_SLIP">>,
    <<"W_MENU">> }

\* { type, message: { type, text }, source: { userId } } of the LINE webhook
TextEvent(u, t) ==
  [type |-> "message", msgType |-> "text", text |-> t, userId |-> u]
OtherMessage(u, mt) ==
  [type |-> "message", msgType |-> mt, text |-> <<>>, userId |-> u]
OtherEvent(u) ==
  [type |-> "follow", msgType |-> "none", text |-> <<>>, userId |-> u]

EventsOf(senders, texts) ==
  {TextEvent(u, t) : u \in senders, t \in texts}
    \cup {OtherMessage(u, mt) : u \in senders, mt \in {"image", "file", "sticker"}}
    \cup {OtherEvent(u) : u \in senders}

\* what one user, or a sender without identity, may send
Events == EventsOf({"U1", NoUserId}, Texts)

(* ------------------------- sessions and stores ------------------------ *)
\* Map.prototype.has / set / delete on a Map held as a function
has(map, k) == k \in DOMAIN map
set(map, k, v) == [x \in DOMAIN map \cup {k} |-> IF x = k THEN v ELSE map[x]]
\* Map.prototype.clear in the place of delete
delete_Clear(map, k) == <<>>
delete(map, k) == [x \in DOMAIN map \ {k} |-> map[x]]
EmptyMap == <<>>

\* a reply handed to client.replyMessage; args carries what the text shows
Reply(e, kind, args) == [to |-> e.userId, kind |-> kind, args |-> args]

\* the state of one call of handleEvent
Resolved == [pc |-> "resolved"]
Rejected == [pc |-> "rejected"]

\* what the synchronous part of a handler leaves behind
Ret(m, replies, h) == [m |-> m, out |-> replies, h |-> h]

\* the row of table rsvps
Row(userId, fullName, guestsCount) ==
  [user_id |-> userId, full_name |-> fullName, guests_count |-> guestsCount]

(* ------------------- src/index.js: handleEvent ("db") ------------------ *)
\* the static cards of index.js: the command text of each
IsWeddingDb(text) == text = <<"W_DETAILS">>
IsTravelDb(text) == text = <<"W_TRAVEL">>
IsBlessingCardDb(text) == text = <<"W_BLESSCARD">>
IsConfirmCardDb(text) == text = <<"W_CONFIRMCARD">> \/ toLowerCase(text) = <<"rsvp">>
IsGiftDb(text) == text = <<"W_GIFT">>
IsBeginBlessingDb(text) == text = <<"W_BLESS">>
IsBeginConfirmDb(text) == text = <<"W_BEGIN">>
IsEditDb(text) == text = <<"W_EDIT">>
isPaySlipTrigger(text) == text = <<"W_SLIP">>
IsHelpDb(text) == text = <<"W_MENU">>

\* try { FLEX.key() ... flexMessage } catch { text notice }
FlexReplyDb(e, key, flexOk) ==
  IF flexOk THEN Reply(e, "Flex", <<key>>) ELSE Reply(e, "FlexError", <<key>>)

\* index.js:307-459, the commands, reached with the session branches passed
RouteDb(m, e, text, flexOk) ==
  LET userId == e.userId
      start(step) == [m EXCEPT !.sessions =
                        set(m.sessions, userId, [step |-> step, temp |-> <<>>])]
  IN
  IF IsWeddingDb(text) THEN Ret(m, <<FlexReplyDb(e, "wedding", flexOk)>>, Resolved)
  ELSE IF IsTravelDb(text) THEN Ret(m, <<FlexReplyDb(e, "travel", flexOk)>>, Resolved)
  ELSE IF IsBlessingCardDb(text)
    THEN Ret(m, <<FlexReplyDb(e, "blessing", flexOk)>>, Resolved)
  ELSE IF IsBeginBlessingDb(text)
    THEN Ret(start("ASK_BLESSING"), <<Reply(e, "AskBlessing", <<>>)>>, Resolved)
  ELSE IF IsConfirmCardDb(text)
    THEN Ret(m, <<FlexReplyDb(e, "confirm", flexOk)>>, Resolved)
  ELSE IF IsBeginConfirmDb(text)
    THEN Ret(m, <<>>, [pc |-> "getRsvp", userId |-> userId])
  ELSE IF IsEditDb(text)
    THEN Ret(start("ASK_NAME"), <<Reply(e, "AskNameAgain", <<>>)>>, Resolved)
  ELSE IF IsGiftDb(text) THEN Ret(m, <<FlexReplyDb(e, "gift", flexOk)>>, Resolved)
  ELSE IF isPaySlipTrigger(text)
    THEN Ret(start("ASK_GIFT_SLIP"), <<Reply(e, "AskSlip", <<>>)>>, Resolved)
  ELSE IF IsHelpDb(text) THEN Ret(m, <<Reply(e, "Help", <<>>)>>, Resolved)
  ELSE Ret(m, <<Reply(e, "Fallback", <<>>)>>, Resolved)

\* index.js:239-305, a text while a session waits for a name, a count or a blessing
SessionStepDb(m, e, text, flexOk) ==
  LET userId == e.userId
      sess == m.sessions[userId]
      n == isNumberLike(text)
  IN
  IF sess.step = "ASK_NAME" THEN
    IF StrLen(text) < MinNameDb
      THEN Ret(m, <<Reply(e, "NameReprompt", <<>>)>>, Resolved)
      ELSE Ret([m EXCEPT !.sessions =
                  set(m.sessions, userId,
                      [step |-> "ASK_COUNT", temp |-> [fullName |-> text]])],
               <<Reply(e, "AskCount", <<>>)>>, Resolved)
  ELSE IF sess.step = "ASK_COUNT" THEN
    IF n = null \/ n = 0 \/ n < 1 \/ n > MaxGuestsDb
      THEN Ret(m, <<Reply(e, "CountReprompt", <<>>)>>, Resolved)
      ELSE Ret(m, <<>>, [pc |-> "upsertRsvp", userId |-> userId,
                         fullName |-> sess.temp.fullName, guestsCount |-> n])
  ELSE IF sess.step = "ASK_BLESSING" THEN
    IF StrLen(text) < MinBlessing
      THEN Ret(m, <<Reply(e, "BlessingReprompt", <<>>)>>, Resolved)
      ELSE Ret(m, <<>>, [pc |-> "insertBlessing", userId |-> userId,
                         message |-> text])
  ELSE RouteDb(m, e, text, flexOk)

\* index.js:194-460 up to the first await
handleEventDb(m, e, flexOk) ==
  LET userId == e.userId
      msgType == e.msgType
      text == IF msgType = "text" THEN normalizeText(e.text) ELSE <<>>
      hasSess == has(m.sessions, userId)
  IN
  IF e.type # "message" THEN Ret(m, <<>>, Resolved)
  ELSE IF userId = NoUserId THEN Ret(m, <<Reply(e, "NoUserId", <<>>)>>, Resolved)
  ELSE IF hasSess /\ m.sessions[userId].step = "ASK_GIFT_SLIP" THEN
    IF msgType \in {"image", "file"}
      THEN Ret([m EXCEPT !.sessions = delete(m.sessions, userId)],
               <<Reply(e, "SlipThanks", <<>>)>>, Resolved)
    ELSE IF msgType = "text"
      THEN Ret(m, <<Reply(e, "SlipReprompt", <<>>)>>, Resolved)
    ELSE Ret(m, <<>>, Resolved)
  ELSE IF msgType # "text" THEN Ret(m, <<>>, Resolved)
  ELSE IF hasSess THEN SessionStepDb(m, e, text, flexOk)
  ELSE RouteDb(m, e, text, flexOk)

(* -------------- src/unnamed/part_000: handleEvent ("mem") ------------- *)
\* flexWrap(bubbleFromFile(file), alt): readFileSync or JSON.parse may throw
FlexReplyMem(m, e, key, flexOk) ==
  IF flexOk THEN Ret(m, <<Reply(e, "Flex", <<key>>)>>, Resolved)
  ELSE Ret(m, <<>>, Rejected)

IsBeginBlessingMem(text) == text = <<"W_BLESS">>
startConfirm(text) == includes(text, "W_BEGIN")
IsEditMem(text) == includes(text, "W_EDIT")

\* part_000:158-260, the commands
RouteMem(m, e, text, flexOk) ==
  LET userId == e.userId
      canSave == userId # NoUserId
      start(step) == [m EXCEPT !.sessions =
                        set(m.sessions, userId, [step |-> step])]
  IN
  IF includes(text, "W_DETAILS") THEN FlexReplyMem(m, e, "event_details", flexOk)
  ELSE IF includes(text, "W_TRAVEL") THEN FlexReplyMem(m, e, "travel", flexOk)
  ELSE IF includes(text, "W_BLESSCARD") THEN FlexReplyMem(m, e, "blessing", flexOk)
  ELSE IF includes(text, "W_CONFIRMCARD") THEN FlexReplyMem(m, e, "confirm", flexOk)
  ELSE IF IsBeginBlessingMem(text) THEN
    IF ~canSave THEN Ret(m, <<Reply(e, "PrivateChatBlessing", <<>>)>>, Resolved)
    ELSE Ret(start("ASK_BLESSING"), <<Reply(e, "AskBlessing", <<>>)>>, Resolved)
  ELSE IF startConfirm(text) THEN
    IF ~canSave THEN Ret(m, <<Reply(e, "PrivateChatConfirm", <<>>)>>, Resolved)
    ELSE IF has(m.rsvpStore, userId)
      THEN Ret(m, <<Reply(e, "AlreadyConfirmed",
                          <<m.rsvpStore[userId].fullName,
                            m.rsvpStore[userId].guestsCount>>)>>, Resolved)
    ELSE Ret(start("ASK_NAME"), <<Reply(e, "AskName", <<>>)>>, Resolved)
  ELSE IF IsEditMem(text) THEN
    IF ~canSave THEN Ret(m, <<>>, Resolved)
    ELSE Ret(start("ASK_NAME"), <<Reply(e, "AskNameAgain", <<>>)>>, Resolved)
  ELSE Ret(m, <<Reply(e, "Help", <<>>)>>, Resolved)

\* part_000:72-261; nothing in it awaits before the reply
handleEventMem(m, e, flexOk) ==
  LET userId == e.userId
      canSave == userId # NoUserId
      text == normalizeText(e.text)
      hasSess == canSave /\ has(m.sessions, userId)
      sess == m.sessions[userId]
      n == parseInt10(text)
      arr == IF has(m.blessingStore, userId) THEN m.blessingStore[userId] ELSE <<>>
  IN
  IF e.type # "message" \/ e.msgType # "text" THEN Ret(m, <<>>, Resolved)
  ELSE IF hasSess /\ sess.step = "ASK_NAME" THEN
    IF StrLen(text) < MinNameMem
      THEN Ret(m, <<Reply(e, "NameReprompt", <<>>)>>, Resolved)
      ELSE Ret([m EXCEPT !.sessions =
                  set(m.sessions, userId, [step |-> "ASK_COUNT", fullName |-> text])],
               <<Reply(e, "AskCount", <<>>)>>, Resolved)
  ELSE IF hasSess /\ sess.step = "ASK_COUNT" THEN
    IF ~isNumberInRange(n, 1, MaxGuestsMem)
      THEN Ret(m, <<Reply(e, "CountReprompt", <<>>)>>, Resolved)
      ELSE Ret([m EXCEPT
                  !.rsvpStore = set(m.rsvpStore, userId,
                                    [fullName |-> sess.fullName, guestsCount |-> n]),
                  !.sessions = delete(m.sessions, userId)],
               <<Reply(e, "Confirmed", <<sess.fullName, n>>)>>, Resolved)
  ELSE IF hasSess /\ sess.step = "ASK_BLESSING" THEN
    IF StrLen(text) < MinBlessing
      THEN Ret(m, <<Reply(e, "BlessingReprompt", <<>>)>>, Resolved)
      ELSE Ret([m EXCEPT
                  !.blessingStore = set(m.blessingStore, userId,
                                        Append(arr, [message |-> text])),
                  !.sessions = delete(m.sessions, userId)],
               <<Reply(e, "BlessingThanks", <<>>)>>, Resolved)
  ELSE RouteMem(m, e, text, flexOk)

(* ----------------- the Persistence Gateway of index.js ---------------- *)
\* the calls a suspended handler waits in, and their answers
Calls == {"getRsvp", "upsertRsvp", "insertBlessing"}
Answers == {"getRsvpRet", "upsertRsvpRet", "insertBlessingRet"}

\* index.js:102-111 getRsvp: maybeSingle() gives the row or null
getRsvp(h) ==
  [pc |-> "getRsvpRet", userId |-> h.userId,
   data |-> IF has(rsvps, h.userId) THEN <<rsvps[h.userId]>> ELSE <<>>]

\* an upsert that stores one guest whatever count it is given
upsertRsvp_CountsOne(h) ==
  [pc |-> "upsertRsvpRet", userId |-> h.userId,
   saved |-> Row(h.userId, h.fullName, 1)]

\* index.js:113-130 upsertRsvp: upsert on conflict user_id, select().single()
upsertRsvp(h) ==
  [pc |-> "upsertRsvpRet", userId |-> h.userId,
   saved |-> Row(h.userId, h.fullName, h.guestsCount)]

\* index.js:132-141 insertBlessing: insert one row
insertBlessing(h) == [pc |-> "insertBlessingRet", userId |-> h.userId]

\* index.js:379-395, 270-284, 297-303: handleEvent after its await
resumeDb(m, h) ==
  LET e == [userId |-> h.userId]
  IN
  IF h.pc = "getRsvpRet" THEN
    IF h.data # <<>>
      THEN Ret(m, <<Reply(e, "AlreadyConfirmed",
                          <<h.data[1].full_name, h.data[1].guests_count>>)>>, Resolved)
      ELSE Ret([m EXCEPT !.sessions =
                  set(m.sessions, h.userId, [step |-> "ASK_NAME", temp |-> <<>>])],
               <<Reply(e, "AskName", <<>>)>>, Resolved)
  ELSE IF h.pc = "upsertRsvpRet" THEN
    Ret([m EXCEPT !.sessions = delete(m.sessions, h.userId)],
        <<Reply(e, "Confirmed", <<h.saved.full_name, h.saved.guests_count>>)>>,
        Resolved)
  ELSE
    Ret([m EXCEPT !.sessions = delete(m.sessions, h.userId)],
        <<Reply(e, "BlessingThanks", <<>>)>>, Resolved)

(* ------------------------------ the webhook --------------------------- *)
Mem == [sessions |-> sessions, rsvpStore |-> rsvpStore,
        blessingStore |-> blessingStore]

\* a handler that lets the edit command restart the flow whatever the session
handleEvent_EditInterrupts(m, e, flexOk) ==
  IF /\ e.type = "message" /\ e.msgType = "text" /\ e.userId # NoUserId
     /\ normalizeText(e.text) = <<"W_EDIT">>
  THEN IF variant = "db" THEN RouteDb(m, e, normalizeText(e.text), flexOk)
       ELSE RouteMem(m, e, normalizeText(e.text), flexOk)
  ELSE IF variant = "db" THEN handleEventDb(m, e, flexOk)
  ELSE handleEventMem(m, e, flexOk)

\* a handler in which an image sent outside any flow opens the gift-slip step
handleEvent_ImageStartsSlip(m, e, flexOk) ==
  IF /\ e.type = "message" /\ e.msgType = "image" /\ e.userId # NoUserId
     /\ ~has(m.sessions, e.userId)
  THEN Ret([m EXCEPT !.sessions = set(m.sessions, e.userId,
                                      [step |-> "ASK_GIFT_SLIP", temp |-> <<>>])],
           <<>>, Resolved)
  ELSE IF variant = "db" THEN handleEventDb(m, e, flexOk)
  ELSE handleEventMem(m, e, flexOk)

\* a handler whose edit command, outside any flow, also drops the stored record
handleEvent_EditDropsRecord(m, e, flexOk) ==
  IF /\ variant = "mem" /\ e.type = "message" /\ e.msgType = "text"
     /\ e.userId # NoUserId /\ ~has(m.sessions, e.userId)
     /\ normalizeText(e.text) = <<"W_EDIT">>
  THEN Ret([m EXCEPT !.sessions = set(m.sessions, e.userId, [step |-> "ASK_NAME"]),
                     !.rsvpStore = delete(m.rsvpStore, e.userId)],
           <<Reply(e, "AskNameAgain", <<>>)>>, Resolved)
  ELSE IF variant = "db" THEN handleEventDb(m, e, flexOk)
  ELSE handleEventMem(m, e, flexOk)

handleEvent(m, e, flexOk) ==
  IF variant = "db" THEN handleEventDb(m, e, flexOk) ELSE handleEventMem(m, e, flexOk)

\* events.map(handleEvent): each call runs to its first await, in order
RECURSIVE MapEvents(_, _, _)
MapEvents(m, events, flexOk) ==
  IF events = <<>> THEN [m |-> m, out |-> <<>>, hs |-> <<>>]
  ELSE LET first == handleEvent(m, Head(events), flexOk)
           rest == MapEvents(first.m, Tail(events), flexOk)
       IN [m |-> rest.m, out |-> first.out \o rest.out, hs |-> <<first.h>> \o rest.hs]

Settled(h) == h.pc \in {"resolved", "rejected"}
AnyRejected(hs) == \E j \in 1..Len(hs) : hs[j] = Rejected
AllResolved(hs) == \A j \in 1..Len(hs) : hs[j] = Resolved

\* await Promise.all(...); res.status(200) / catch: res.status(500).
\* Nothing is sent twice: rq.responded tells that the answer has left.
Respond(rq) ==
  IF rq.responded THEN <<>>
  ELSE IF AnyRejected(rq.hs) THEN <<500>>
  ELSE IF AllResolved(rq.hs) THEN <<200>>
  ELSE <<>>

\* the requests that still have a handler waiting
Keep(rqs) == SelectSeq(rqs, LAMBDA rq : \E j \in 1..Len(rq.hs) : ~Settled(rq.hs[j]))

\* the batches (req.body.events) a webhook call may carry: every single event,
\* and two answers of one user in one batch
Batches ==
  {<<e>> : e \in Events}
    \cup {<<TextEvent("U1", t1), TextEvent("U1", t2)>> :
            t1 \in {<<"1">>, <<"W_BLESS">>}, t2 \in {<<"2", "0">>, <<"a", "b">>}}

\* the confirmation flow of one user, one event per call
FlowTexts ==
  { <<"W_CONFIRMCARD">>, <<" ", "W_BEGIN">>, <<"W_EDIT">>, <<"a", "b">>,
    <<"a", "b", "c">>, <<"2", " ", "a", "b">>, <<"5", "0">>, <<"1">> }
FlowBatches == {<<TextEvent("U1", t)>> : t \in FlowTexts}

\* whether the card files can be read matters to a card request only
IsCardText(t) ==
  \E w \in {"W_DETAILS", "W_TRAVEL", "W_BLESSCARD", "W_CONFIRMCARD", "W_GIFT",
            "RSVP"} : includes(t, w)
FlexOutcomes(events) ==
  IF \E k \in 1..Len(events) : IsCardText(events[k].text) THEN BOOLEAN ELSE {TRUE}

\* a row that an earlier run of index.js left in table rsvps
SeedRow == Row("U1", <<"a", "b", "c">>, 2)

Init ==
  /\ variant \in {"db", "mem"}
  /\ sessions = EmptyMap
  /\ rsvps \in IF variant = "db" THEN {EmptyMap, set(EmptyMap, "U1", SeedRow)}
               ELSE {EmptyMap}
  /\ blessings = <<>>
  /\ rsvpStore = EmptyMap
  /\ blessingStore = EmptyMap
  /\ reqs = <<>>
  /\ out = <<>>
  /\ res = <<>>
  /\ delivered = 0

\* app.post("/line/webhook"): index.js:171-180, part_000:29-37
Webhook(events, flexOk, max) ==
  LET r == MapEvents(Mem, events, flexOk)
      rq == [hs |-> r.hs, responded |-> FALSE]
      status == Respond(rq)
  IN /\ delivered + Len(events) <= max
     /\ delivered' = delivered + Len(events)
     /\ sessions' = r.m.sessions
     /\ rsvpStore' = r.m.rsvpStore
     /\ blessingStore' = r.m.blessingStore
     /\ out' = r.out
     /\ res' = status
     /\ reqs' = Keep(Append(reqs, [rq EXCEPT !.responded = status # <<>>]))
     /\ UNCHANGED <<variant, rsvps, blessings>>

\* a database whose upsert keeps the row a user already has
DbServe_KeepsFirstRow(i, j) ==
  LET h == reqs[i].hs[j]
  IN /\ h.pc \in Calls
     /\ \/ /\ h.pc = "getRsvp"
           /\ reqs' = [reqs EXCEPT ![i].hs[j] = getRsvp(h)]
           /\ UNCHANGED <<rsvps, blessings>>
        \/ /\ h.pc = "upsertRsvp"
           /\ rsvps' = IF has(rsvps, h.userId) THEN rsvps
                        ELSE set(rsvps, h.userId, upsertRsvp(h).saved)
           /\ reqs' = [reqs EXCEPT ![i].hs[j] = upsertRsvp(h)]
           /\ UNCHANGED blessings
        \/ /\ h.pc = "insertBlessing"
           /\ blessings' = Append(blessings, [user_id |-> h.userId, message |-> h.message])
           /\ reqs' = [reqs EXCEPT ![i].hs[j] = insertBlessing(h)]
           /\ UNCHANGED rsvps
     /\ out' = <<>>
     /\ res' = <<>>
     /\ UNCHANGED <<variant, sessions, rsvpStore, blessingStore, delivered>>

\* a database that keeps one well-wish per user, the latest
DbServe_OneWishPerUser(i, j) ==
  LET h == reqs[i].hs[j]
  IN /\ h.pc \in Calls
     /\ \/ /\ h.pc = "getRsvp"
           /\ reqs' = [reqs EXCEPT ![i].hs[j] = getRsvp(h)]
           /\ UNCHANGED <<rsvps, blessings>>
        \/ /\ h.pc = "upsertRsvp"
           /\ rsvps' = set(rsvps, h.userId, upsertRsvp(h).saved)
           /\ reqs' = [reqs EXCEPT ![i].hs[j] = upsertRsvp(h)]
           /\ UNCHANGED blessings
        \/ /\ h.pc = "insertBlessing"
           /\ blessings' = Append(SelectSeq(blessings, LAMBDA b : b.user_id # h.userId),
                                  [user_id |-> h.userId, message |-> h.message])
           /\ reqs' = [reqs EXCEPT ![i].hs[j] = insertBlessing(h)]
           /\ UNCHANGED rsvps
     /\ out' = <<>>
     /\ res' = <<>>
     /\ UNCHANGED <<variant, sessions, rsvpStore, blessingStore, delivered>>

\* the database serves the call of handler j of request i
DbServe(i, j) ==
  LET h == reqs[i].hs[j]
  IN /\ h.pc \in Calls
     /\ \/ /\ h.pc = "getRsvp"
           /\ reqs' = [reqs EXCEPT ![i].hs[j] = getRsvp(h)]
           /\ UNCHANGED <<rsvps, blessings>>
        \/ /\ h.pc = "upsertRsvp"
           /\ rsvps' = set(rsvps, h.userId, upsertRsvp(h).saved)
           /\ reqs' = [reqs EXCEPT ![i].hs[j] = upsertRsvp(h)]
           /\ UNCHANGED blessings
        \/ /\ h.pc = "insertBlessing"
           /\ blessings' = Append(blessings, [user_id |-> h.userId, message |-> h.message])
           /\ reqs' = [reqs EXCEPT ![i].hs[j] = insertBlessing(h)]
           /\ UNCHANGED rsvps
     /\ out' = <<>>
     /\ res' = <<>>
     /\ UNCHANGED <<variant, sessions, rsvpStore, blessingStore, delivered>>

\* a failure path that gives the session up
DbError_ClearsSession(i, j) ==
  LET h == reqs[i].hs[j]
      rq == [reqs[i] EXCEPT !.hs[j] = Rejected]
      status == Respond(rq)
  IN /\ h.pc \in Calls
     /\ out' = <<>>
     /\ res' = status
     /\ reqs' = Keep([reqs EXCEPT ![i] = [rq EXCEPT !.responded = TRUE]])
     /\ sessions' = delete(sessions, h.userId)
     /\ UNCHANGED <<variant, rsvps, blessings, rsvpStore, blessingStore, delivered>>

\* the call of handler j of request i fails: if (error) throw error
DbError(i, j) ==
  LET h == reqs[i].hs[j]
      rq == [reqs[i] EXCEPT !.hs[j] = Rejected]
      status == Respond(rq)
  IN /\ h.pc \in Calls
     /\ out' = <<>>
     /\ res' = status
     /\ reqs' = Keep([reqs EXCEPT ![i] = [rq EXCEPT !.responded = TRUE]])
     /\ UNCHANGED <<variant, sessions, rsvps, blessings, rsvpStore, blessingStore,
                    delivered>>

\* handler j of request i goes on after its await
Resume(i, j) ==
  LET h == reqs[i].hs[j]
      r == resumeDb(Mem, h)
      rq == [reqs[i] EXCEPT !.hs[j] = r.h]
      status == Respond(rq)
  IN /\ h.pc \in Answers
     /\ sessions' = r.m.sessions
     /\ out' = r.out
     /\ res' = status
     /\ reqs' = Keep([reqs EXCEPT ![i] = [rq EXCEPT !.responded =
                                             rq.responded \/ status # <<>>]])
     /\ UNCHANGED <<variant, rsvps, blessings, rsvpStore, blessingStore, delivered>>

\* the steps of the suspended handlers and of the database
Background ==
  \/ \E i \in 1..Len(reqs) : \E j \in 1..Len(reqs[i].hs) : DbServe(i, j)
  \/ \E i \in 1..Len(reqs) : \E j \in 1..Len(reqs[i].hs) : DbError(i, j)
  \/ \E i \in 1..Len(reqs) : \E j \in 1..Len(reqs[i].hs) : Resume(i, j)

Next ==
  \/ \E events \in Batches : \E flexOk \in FlexOutcomes(events) :
       Webhook(events, flexOk, MaxEvents)
  \/ Background

Spec == Init /\ [][Next]_vars

NextFlow ==
  \/ \E events \in FlowBatches : \E flexOk \in FlexOutcomes(events) :
       Webhook(events, flexOk, MaxFlowEvents)
  \/ Background

SpecFlow == Init /\ [][NextFlow]_vars

\* the well-wish flow of one user, one event per call
BlessTexts ==
  { <<"W_BLESS">>, <<" ", "a", " ">>, <<"a", "b">>, <<"a", "b", "c">>, <<"W_MENU">> }
BlessBatches == {<<TextEvent("U1", t)>> : t \in BlessTexts}

NextBless ==
  \/ \E events \in BlessBatches : \E flexOk \in FlexOutcomes(events) :
       Webhook(events, flexOk, MaxBlessEvents)
  \/ Background

SpecBless == Init /\ [][NextBless]_vars

\* two users, each in the flows, one event per call
TwoTexts ==
  { <<"W_BLESS">>, <<" ", "W_BEGIN">>, <<"W_EDIT">>, <<"a", "b", "c">>, <<"1">> }
TwoBatches == {<<TextEvent(u, t)>> : u \in Users, t \in TwoTexts}

NextTwo ==
  \/ \E events \in TwoBatches : \E flexOk \in FlexOutcomes(events) :
       Webhook(events, flexOk, MaxTwoEvents)
  \/ Background

SpecTwo == Init /\ [][NextTwo]_vars

(* ============================== claims ================================ *)
\* the collected name of a session: sess.temp.fullName / sess.fullName
SessName(sess) == IF variant = "db" THEN sess.temp.fullName ELSE sess.fullName

IsTextEvent(e) == e.type = "message" /\ e.msgType = "text"
IsCommandPhrase(text) == \E w \in Words : text = <<w>>

\* the replies that answer a step
StepReplies(step) ==
  CASE step = "ASK_NAME" -> {"NameReprompt", "AskCount"}
    [] step = "ASK_COUNT" -> {"CountReprompt", "Confirmed"}
    [] step = "ASK_BLESSING" -> {"BlessingReprompt", "BlessingThanks"}
    [] step = "ASK_GIFT_SLIP" -> {"SlipReprompt"}

\* the calls of reqs that wait in getRsvp
GetRsvpCalls(rqs) ==
  {<<i, j>> \in (1..Len(rqs)) \X (1..2) :
     j <= Len(rqs[i].hs) /\ rqs[i].hs[j].pc = "getRsvp"}

\* a text handled while its user has a session is answered by the step alone
C1_AnsweredByStep(e) ==
  LET u == e.userId
      step == sessions[u].step
  IN /\ \A k \in 1..Len(out') : out'[k].kind \in StepReplies(step)
     /\ Cardinality(GetRsvpCalls(reqs')) = Cardinality(GetRsvpCalls(reqs))

\* the session after such a text: kept as it was, or moved from the name to the count
C1_SameOrAdvanced(e) ==
  LET u == e.userId
  IN /\ has(sessions', u)
     /\ \/ sessions'[u] = sessions[u]
        \/ /\ sessions[u].step = "ASK_NAME"
           /\ sessions'[u].step = "ASK_COUNT"
           /\ SessName(sessions'[u]) = normalizeText(e.text)

\* C1 as stated: a text sent while a session exists is answered by the session's
\* step, never by the command router, and a command phrase sent mid-flow neither
\* creates, replaces nor deletes the session.
C1_Original ==
  [][\A e \in Events : \A f \in FlexOutcomes(<<e>>) :
       (/\ delivered' = delivered + 1 /\ IsTextEvent(e) /\ has(sessions, e.userId)
        /\ Webhook(<<e>>, f, MaxEvents))
       => /\ C1_AnsweredByStep(e)
          /\ IsCommandPhrase(normalizeText(e.text)) => C1_SameOrAdvanced(e)]_vars

\* C1 (amended): a text sent while a session exists is answered by the session's
\* step, never by the command router (no router reply, no getRsvp call); the
\* session is kept, moved from ASK_NAME to ASK_COUNT with the text as the name,
\* or deleted by the completion of ASK_COUNT or ASK_BLESSING, also when the text
\* is a command phrase - it never becomes the session of a newly started flow.
C1_SessionPriority ==
  [][\A e \in Events : \A f \in FlexOutcomes(<<e>>) :
       (/\ delivered' = delivered + 1 /\ IsTextEvent(e) /\ has(sessions, e.userId)
        /\ Webhook(<<e>>, f, MaxEvents))
       => /\ C1_AnsweredByStep(e)
          /\ \/ C1_SameOrAdvanced(e)
             \/ /\ ~has(sessions', e.userId)
                /\ sessions[e.userId].step \in {"ASK_COUNT", "ASK_BLESSING"}
                /\ out'[1].kind \in {"Confirmed", "BlessingThanks"}]_vars

\* the edit command, sent as the answer to ASK_NAME, became the name
C1_Witness ==
  /\ has(sessions, "U1")
  /\ sessions["U1"].step = "ASK_COUNT"
  /\ SessName(sessions["U1"]) = <<"W_EDIT">>
  /\ Len(out) = 1 /\ out[1].kind = "AskCount"

\* the handlers of reqs, as <<request, position>>
Handlers(rqs) ==
  {<<i, j>> \in (1..Len(rqs)) \X (1..2) : j <= Len(rqs[i].hs)}

WriteCalls == {"upsertRsvp", "insertBlessing"}

\* C2: when upsertRsvp (ASK_COUNT) or insertBlessing (ASK_BLESSING) fails, the
\* handling of that event leaves the sessions as they were: neither the step that
\* issued the call nor the step in which the call fails changes or deletes a session.
C2_FailureKeepsSession ==
  [][/\ \A e \in Events : \A f \in FlexOutcomes(<<e>>) :
          (/\ delivered' = delivered + 1
           /\ handleEvent(Mem, e, f).h.pc \in WriteCalls
           /\ Webhook(<<e>>, f, MaxEvents))
          => sessions' = sessions
     /\ \A ij \in Handlers(reqs) :
          (reqs[ij[1]].hs[ij[2]].pc \in WriteCalls /\ DbError(ij[1], ij[2]))
          => sessions' = sessions]_vars

\* upsertRsvp has just failed: the webhook answered 500, nothing was stored and
\* the session still waits for the count with the name it had
C2_Witness ==
  /\ variant = "db"
  /\ res = <<500>>
  /\ has(sessions, "U1")
  /\ sessions["U1"] = [step |-> "ASK_COUNT", temp |-> [fullName |-> <<"a", "b">>]]
  /\ ~has(rsvps, "U1")
  /\ reqs = <<>>

HandlerAt(ij) == reqs[ij[1]].hs[ij[2]]

\* C3: when a gateway call (getRsvp, upsertRsvp, insertBlessing) fails, the user
\* gets one generic failure text as the reply to that event and the webhook does
\* not answer 500.
C3_FailureSurfaced ==
  [][\A ij \in Handlers(reqs) :
       DbError(ij[1], ij[2])
       => /\ Len(out') = 1
          /\ out'[1].to = HandlerAt(ij).userId
          /\ out'[1].kind = "GenericFailure"
          /\ res' # <<500>>]_vars

\* the session a suspended handler read before its await (index.js:209)
SawSession(h, sess) ==
  CASE h.pc = "getRsvpRet" -> sess = <<>>
    [] h.pc = "upsertRsvpRet" ->
         sess = <<[step |-> "ASK_COUNT", temp |-> [fullName |-> h.saved.full_name]]>>
    [] h.pc = "insertBlessingRet" ->
         sess = <<[step |-> "ASK_BLESSING", temp |-> <<>>]>>

\* sessions.get(userId), as a sequence of at most one session
Get(map, k) == IF has(map, k) THEN <<map[k]>> ELSE <<>>

\* C4: the events of one user are serialized: a handler that resumes after its
\* await and writes the session finds the session it read before the await, so
\* it never overwrites or deletes what another event created or advanced meanwhile.
C4_NoLostUpdate ==
  [][\A ij \in Handlers(reqs) :
       (Resume(ij[1], ij[2]) /\ sessions' # sessions)
       => SawSession(HandlerAt(ij), Get(sessions, HandlerAt(ij).userId))]_vars

\* the handlers of user u whose write the database has applied and that have
\* not resumed yet
Applied(u) ==
  {ij \in Handlers(reqs) :
     HandlerAt(ij).pc \in {"upsertRsvpRet", "insertBlessingRet"}
       /\ HandlerAt(ij).userId = u}

\* C5: a flow's result is persisted exactly once: when the store applies the
\* upsertRsvp or insertBlessing of a handler, the session that call completes is
\* still the user's session and no other write for it has been applied.
C5_PersistedOnce ==
  [][\A ij \in Handlers(reqs) :
       (HandlerAt(ij).pc \in WriteCalls /\ DbServe(ij[1], ij[2]))
       => /\ Applied(HandlerAt(ij).userId) = {}
          /\ has(sessions, HandlerAt(ij).userId)
          /\ sessions[HandlerAt(ij).userId].step =
               (IF HandlerAt(ij).pc = "upsertRsvp" THEN "ASK_COUNT"
                ELSE "ASK_BLESSING")]_vars

\* the Confirmation Record of user u, as a sequence of at most one
\* <<fullName, guestsCount>>
Record(u) ==
  IF variant = "db"
  THEN IF has(rsvps, u) THEN <<<<rsvps[u].full_name, rsvps[u].guests_count>>>> ELSE <<>>
  ELSE IF has(rsvpStore, u)
       THEN <<<<rsvpStore[u].fullName, rsvpStore[u].guestsCount>>>> ELSE <<>>

\* the step in which the begin-confirmation command of user u is answered:
\* part_000 answers in the webhook step, index.js when the handler resumes from getRsvp
BeginConfirmAnswered(u) ==
  \/ /\ variant = "mem"
     /\ ~has(sessions, u)
     /\ \E e \in Events : \E f \in BOOLEAN :
          /\ IsTextEvent(e) /\ e.userId = u
          /\ startConfirm(normalizeText(e.text))
          /\ handleEvent(Mem, e, f).out # <<>>
          /\ handleEvent(Mem, e, f).out[1].kind \in {"AlreadyConfirmed", "AskName"}
          /\ Webhook(<<e>>, f, MaxFlowEvents)
  \/ /\ variant = "db"
     /\ \E ij \in Handlers(reqs) :
          /\ HandlerAt(ij).pc = "getRsvpRet"
          /\ HandlerAt(ij).userId = u
          /\ Resume(ij[1], ij[2])

\* C6: begin-confirmation of a user who has a Confirmation Record and no session
\* replies with the record's fullName and guestsCount, creates no session and
\* leaves the record as it is; it creates the ASK_NAME session only when the user
\* has no record.
C6_ExistingRecordNoRestart ==
  [][\A u \in Users :
       BeginConfirmAnswered(u)
       => /\ (Record(u) # <<>> /\ ~has(sessions, u))
               => /\ out' = <<[to |-> u, kind |-> "AlreadyConfirmed",
                               args |-> Record(u)[1]]>>
                  /\ sessions' = sessions
                  /\ rsvps' = rsvps /\ rsvpStore' = rsvpStore
          /\ (has(sessions', u) /\ sessions' # sessions)
               => /\ Record(u) = <<>>
                  /\ sessions'[u].step = "ASK_NAME"]_vars

\* the four commands that start a flow: begin-well-wish, begin-confirmation,
\* edit-confirmation, begin-attachment
C7_IsFlowStart(text) ==
  \E w \in {"W_BLESS", "W_BEGIN", "W_EDIT", "W_SLIP"} : includes(text, w)

\* this step handles a flow-start command of user u
C7_HandlesFlowStart(u) ==
  \/ \E events \in Batches : \E f \in BOOLEAN :
       /\ Webhook(events, f, MaxEvents)
       /\ \E k \in 1..Len(events) :
            /\ IsTextEvent(events[k]) /\ events[k].userId = u
            /\ C7_IsFlowStart(normalizeText(events[k].text))
  \/ \E ij \in Handlers(reqs) :
       /\ HandlerAt(ij).pc = "getRsvpRet" /\ HandlerAt(ij).userId = u
       /\ Resume(ij[1], ij[2])

\* C7: there is no session at the start, and a user passes from no session to a
\* session only in a step that handles one of the four flow-start commands of
\* that user (in index.js begin-confirmation does it when it resumes from getRsvp).
C7_CreatedByFlowStart ==
  /\ sessions = EmptyMap
  /\ [][\A u \in Users \cup {NoUserId} :
          (~has(sessions, u) /\ has(sessions', u))
          => /\ C7_HandlesFlowStart(u)
             /\ sessions'[u].step \in {"ASK_NAME", "ASK_BLESSING", "ASK_GIFT_SLIP"}]_vars

\* the begin-attachment command has just created the session
C7_Witness ==
  /\ has(sessions, "U1")
  /\ sessions["U1"].step = "ASK_GIFT_SLIP"
  /\ out = <<[to |-> "U1", kind |-> "AskSlip", args |-> <<>>]>>

\* the text fails the validation of the step (name threshold, count with no
\* number or outside [1,N], blessing threshold)
C8_Invalid(step, text) ==
  LET n == isNumberLike(text)
  IN CASE step = "ASK_NAME" ->
            StrLen(text) < (IF variant = "db" THEN MinNameDb ELSE MinNameMem)
       [] step = "ASK_COUNT" ->
            \/ n = null
            \/ n < 1
            \/ n > (IF variant = "db" THEN MaxGuestsDb ELSE MaxGuestsMem)
       [] step = "ASK_BLESSING" -> StrLen(text) < MinBlessing
       [] OTHER -> FALSE

C8_Reprompt(step) ==
  CASE step = "ASK_NAME" -> "NameReprompt"
    [] step = "ASK_COUNT" -> "CountReprompt"
    [] step = "ASK_BLESSING" -> "BlessingReprompt"

\* C8: a text that fails the validation of the sender's step (ASK_NAME,
\* ASK_COUNT, ASK_BLESSING) leaves every session (step and temp) and both
\* stores as they were, starts no gateway call, and is answered by the
\* re-prompt of that step.
C8_ValidationErrorKeepsState ==
  [][\A e \in Events : \A f \in FlexOutcomes(<<e>>) :
       (/\ delivered' = delivered + 1 /\ IsTextEvent(e) /\ has(sessions, e.userId)
        /\ C8_Invalid(sessions[e.userId].step, normalizeText(e.text))
        /\ Webhook(<<e>>, f, MaxEvents))
       => /\ sessions' = sessions
          /\ rsvps' = rsvps /\ rsvpStore' = rsvpStore
          /\ blessings' = blessings /\ blessingStore' = blessingStore
          /\ reqs' = reqs
          /\ out' = <<[to |-> e.userId,
                       kind |-> C8_Reprompt(sessions[e.userId].step),
                       args |-> <<>>]>>]_vars

\* an invalid count has just been answered in ASK_COUNT
C8_Witness ==
  /\ has(sessions, "U1")
  /\ sessions["U1"].step = "ASK_COUNT"
  /\ out = <<[to |-> "U1", kind |-> "CountReprompt", args |-> <<>>]>>
  /\ rsvps = EmptyMap /\ rsvpStore = EmptyMap

C9_MaxGuests == IF variant = "db" THEN MaxGuestsDb ELSE MaxGuestsMem

\* C9: in ASK_COUNT the count is the value of the first run of digits of the
\* text, whatever precedes or follows it; when it lies in [1,N] the record is
\* upserted with the session's fullName and that count (index.js: the call
\* upsertRsvp is issued with them, and the session is deleted when it returns;
\* part_000: the row is stored and the session deleted at once); a text with
\* no digit is answered by the re-prompt and changes nothing.
C9_FirstDigitRun ==
  [][/\ \A e \in Events : \A f \in FlexOutcomes(<<e>>) :
          (/\ delivered' = delivered + 1 /\ IsTextEvent(e) /\ has(sessions, e.userId)
           /\ sessions[e.userId].step = "ASK_COUNT"
           /\ Webhook(<<e>>, f, MaxEvents))
          => LET u == e.userId
                 n == isNumberLike(normalizeText(e.text))
                 h == handleEvent(Mem, e, f).h
             IN /\ (n \in 1..C9_MaxGuests /\ variant = "mem")
                     => /\ has(rsvpStore', u)
                        /\ rsvpStore'[u].fullName = sessions[u].fullName
                        /\ rsvpStore'[u].guestsCount = n
                        /\ ~has(sessions', u)
                /\ (n \in 1..C9_MaxGuests /\ variant = "db")
                     => /\ h.pc = "upsertRsvp" /\ h.userId = u
                        /\ h.fullName = sessions[u].temp.fullName
                        /\ h.guestsCount = n
                /\ n = null
                     => /\ out' = <<[to |-> u, kind |-> "CountReprompt", args |-> <<>>]>>
                        /\ sessions' = sessions /\ rsvpStore' = rsvpStore
     /\ \A ij \in Handlers(reqs) :
          (HandlerAt(ij).pc = "upsertRsvpRet" /\ Resume(ij[1], ij[2]))
          => ~has(sessions', HandlerAt(ij).userId)]_vars

\* the upper bound of the count as the builds configure it
C10_N == IF variant = "db" THEN 50 ELSE 20

\* the text is a plain decimal numeral
C10_IsNumeral(text) == Len(text) > 0 /\ \A i \in 1..Len(text) : text[i] \in Digits

\* C10: in ASK_COUNT the numerals 1 and N (50 in index.js, 20 in part_000) are
\* accepted and persisted (part_000 stores the row at once; index.js calls
\* upsertRsvp with the count and the database stores the row when it serves
\* the call), and the numerals 0 and N+1 are rejected: re-prompt, sessions and
\* stores unchanged, no gateway call.
C10_CountBoundaries ==
  [][/\ \A e \in Events : \A f \in FlexOutcomes(<<e>>) :
          (/\ delivered' = delivered + 1 /\ IsTextEvent(e) /\ has(sessions, e.userId)
           /\ sessions[e.userId].step = "ASK_COUNT"
           /\ C10_IsNumeral(normalizeText(e.text))
           /\ Webhook(<<e>>, f, MaxEvents))
          => LET u == e.userId
                 text == normalizeText(e.text)
                 v == DecimalValue(text, 1, Len(text))
                 h == handleEvent(Mem, e, f).h
             IN /\ (v \in {1, C10_N} /\ variant = "mem")
                     => /\ has(rsvpStore', u)
                        /\ rsvpStore'[u].guestsCount = v
                        /\ ~has(sessions', u)
                /\ (v \in {1, C10_N} /\ variant = "db")
                     => /\ h.pc = "upsertRsvp" /\ h.userId = u
                        /\ h.guestsCount = v
                /\ v \in {0, C10_N + 1}
                     => /\ out' = <<[to |-> u, kind |-> "CountReprompt", args |-> <<>>]>>
                        /\ sessions' = sessions
                        /\ rsvpStore' = rsvpStore /\ rsvps' = rsvps
                        /\ reqs' = reqs
     /\ \A ij \in Handlers(reqs) :
          (HandlerAt(ij).pc = "upsertRsvp" /\ DbServe(ij[1], ij[2]))
          => /\ has(rsvps', HandlerAt(ij).userId)
             /\ rsvps'[HandlerAt(ij).userId].guests_count = HandlerAt(ij).guestsCount]_vars

\* the count N of index.js has been persisted and confirmed to the user
C10_Witness ==
  /\ variant = "db"
  /\ has(rsvps, "U1") /\ rsvps["U1"].guests_count = 50
  /\ ~has(sessions, "U1")
  /\ \E i \in 1..Len(out) : out[i].kind = "Confirmed"

\* the store m with the entry of user u replaced by row, every other entry kept
C11_Overwritten(m, u, row) ==
  [x \in DOMAIN m \cup {u} |-> IF x = u THEN row ELSE m[x]]

\* C11: the confirmation store holds one record per user, filed under that user;
\* every write of it (upsertRsvp served by the database in index.js, the valid
\* count in part_000) leaves the store as it was except that the writer's entry
\* is the record of the latest fullName and guestsCount, so a repeated upsert
\* with the same arguments leaves that one record; nothing else changes the store.
C11_UpsertOnePerUser ==
  /\ [](\A u \in DOMAIN rsvps : rsvps[u].user_id = u)
  /\ [][/\ \A ij \in Handlers(reqs) :
             (HandlerAt(ij).pc = "upsertRsvp" /\ DbServe(ij[1], ij[2]))
             => LET h == HandlerAt(ij)
                IN rsvps' = C11_Overwritten(rsvps, h.userId,
                              [user_id |-> h.userId, full_name |-> h.fullName,
                               guests_count |-> h.guestsCount])
        /\ rsvps' # rsvps
             => \E ij \in Handlers(reqs) :
                  HandlerAt(ij).pc = "upsertRsvp" /\ DbServe(ij[1], ij[2])
        /\ rsvpStore' # rsvpStore
             => \E u \in Users :
                  /\ has(sessions, u) /\ sessions[u].step = "ASK_COUNT"
                  /\ has(rsvpStore', u)
                  /\ rsvpStore' = C11_Overwritten(rsvpStore, u, rsvpStore'[u])
                  /\ rsvpStore'[u].fullName = sessions[u].fullName
                  /\ out' = <<[to |-> u, kind |-> "Confirmed",
                               args |-> <<rsvpStore'[u].fullName,
                                          rsvpStore'[u].guestsCount>>]>>]_vars

\* a begin-confirmation handler still holds the old row it read, and the row was
\* overwritten since by a completed edit
C11_Witness ==
  /\ has(rsvps, "U1") /\ rsvps["U1"] # SeedRow
  /\ \E ij \in Handlers(reqs) :
       HandlerAt(ij).pc = "getRsvpRet" /\ HandlerAt(ij).data = <<SeedRow>>

\* sequence a continues as sequence b
C12_IsPrefix(a, b) == Len(a) <= Len(b) /\ SubSeq(b, 1, Len(a)) = a

\* the well-wishes part_000 keeps for user u
C12_Wishes(store, u) == IF has(store, u) THEN store[u] ELSE <<>>

\* C12: well-wishes are append-only.  A valid answer in ASK_BLESSING adds one
\* record of that user with the trimmed text as message and the session is
\* deleted (part_000 at once; index.js calls insertBlessing with that text, the
\* database appends the row when it serves the call and the session is deleted
\* when the handler resumes); no step removes or changes a record stored before.
C12_AppendOnly ==
  [][/\ \A e \in Events : \A f \in FlexOutcomes(<<e>>) :
          (/\ delivered' = delivered + 1 /\ IsTextEvent(e) /\ has(sessions, e.userId)
           /\ sessions[e.userId].step = "ASK_BLESSING"
           /\ StrLen(normalizeText(e.text)) >= 2
           /\ Webhook(<<e>>, f, MaxBlessEvents))
          => LET u == e.userId
                 text == normalizeText(e.text)
                 h == handleEvent(Mem, e, f).h
             IN IF variant = "mem"
                  THEN /\ blessingStore'
                            = C11_Overwritten(blessingStore, u,
                                Append(C12_Wishes(blessingStore, u), [message |-> text]))
                       /\ ~has(sessions', u)
                  ELSE h = [pc |-> "insertBlessing", userId |-> u, message |-> text]
     /\ \A ij \in Handlers(reqs) :
          /\ (HandlerAt(ij).pc = "insertBlessing" /\ DbServe(ij[1], ij[2]))
               => blessings' = Append(blessings, [user_id |-> HandlerAt(ij).userId,
                                                  message |-> HandlerAt(ij).message])
          /\ (HandlerAt(ij).pc = "insertBlessingRet" /\ Resume(ij[1], ij[2]))
               => ~has(sessions', HandlerAt(ij).userId)
     /\ C12_IsPrefix(blessings, blessings') /\ Len(blessings') <= Len(blessings) + 1
     /\ \A u \in DOMAIN blessingStore :
          /\ has(blessingStore', u)
          /\ C12_IsPrefix(blessingStore[u], blessingStore'[u])]_vars

\* two well-wish flows of one user were completed: two records, both kept
C12_Witness ==
  /\ variant = "mem" /\ ~has(sessions, "U1")
  /\ has(blessingStore, "U1") /\ Len(blessingStore["U1"]) = 2
  /\ out = <<[to |-> "U1", kind |-> "BlessingThanks", args |-> <<>>]>>

\* user u is idle with nothing in flight: the events are handled one after the other
C13_Quiet == reqs = <<>>

\* the only handler in flight
C13_Alone(ij) == Len(reqs) = 1 /\ Len(reqs[1].hs) = 1 /\ ij = <<1, 1>>

C13_HasRecord(u) == IF variant = "db" THEN has(rsvps, u) ELSE has(rsvpStore, u)

C13_ValidName(text) ==
  StrLen(text) >= (IF variant = "db" THEN MinNameDb ELSE MinNameMem)

C13_ValidCount(text) ==
  /\ C10_IsNumeral(text)
  /\ DecimalValue(text, 1, Len(text)) \in 1..C10_N

\* C13: the confirmation scenario of a user without session and record, the
\* events handled one after the other.  The confirm-card text (card loaded) is
\* answered by the card and creates no session; the begin-confirmation text
\* leaves the session in ASK_NAME; a valid name leaves it in ASK_COUNT with that
\* name; a valid count n stores {fullName: that name, guestsCount: n}, deletes
\* the session and is answered by the confirmation showing that name and n.
C13_Scenario ==
  [][/\ \A e \in Events :
          (/\ delivered' = delivered + 1 /\ IsTextEvent(e) /\ e.userId \in Users
           /\ C13_Quiet
           /\ Webhook(<<e>>, TRUE, MaxFlowEvents))
          => LET u == e.userId
                 text == normalizeText(e.text)
                 h == handleEvent(Mem, e, TRUE).h
             IN /\ (~has(sessions, u) /\ ~C13_HasRecord(u) /\ text = <<"W_CONFIRMCARD">>)
                     => /\ out' = <<[to |-> u, kind |-> "Flex", args |-> <<"confirm">>]>>
                        /\ ~has(sessions', u)
                /\ (~has(sessions, u) /\ ~C13_HasRecord(u) /\ text = <<"W_BEGIN">>)
                     => IF variant = "mem"
                          THEN /\ has(sessions', u) /\ sessions'[u].step = "ASK_NAME"
                               /\ out' = <<[to |-> u, kind |-> "AskName", args |-> <<>>]>>
                          ELSE h = [pc |-> "getRsvp", userId |-> u]
                /\ (has(sessions, u) /\ sessions[u].step = "ASK_NAME" /\ C13_ValidName(text))
                     => /\ has(sessions', u) /\ sessions'[u].step = "ASK_COUNT"
                        /\ SessName(sessions'[u]) = text
                        /\ out' = <<[to |-> u, kind |-> "AskCount", args |-> <<>>]>>
                /\ (has(sessions, u) /\ sessions[u].step = "ASK_COUNT" /\ C13_ValidCount(text))
                     => LET n == DecimalValue(text, 1, Len(text))
                            name == SessName(sessions[u])
                        IN IF variant = "mem"
                             THEN /\ has(rsvpStore', u)
                                  /\ rsvpStore'[u] = [fullName |-> name, guestsCount |-> n]
                                  /\ ~has(sessions', u)
                                  /\ out' = <<[to |-> u, kind |-> "Confirmed",
                                               args |-> <<name, n>>]>>
                             ELSE h = [pc |-> "upsertRsvp", userId |-> u,
                                       fullName |-> name, guestsCount |-> n]
     /\ \A ij \in Handlers(reqs) :
          LET h == HandlerAt(ij)
              u == h.userId
          IN /\ (h.pc = "getRsvp" /\ ~has(rsvps, u) /\ DbServe(ij[1], ij[2]))
                  => HandlerAt(ij)' = [pc |-> "getRsvpRet", userId |-> u, data |-> <<>>]
             /\ (h.pc = "getRsvpRet" /\ h.data = <<>> /\ C13_Alone(ij)
                   /\ Resume(ij[1], ij[2]))
                  => /\ has(sessions', u) /\ sessions'[u].step = "ASK_NAME"
                     /\ out' = <<[to |-> u, kind |-> "AskName", args |-> <<>>]>>
             /\ (h.pc = "upsertRsvp" /\ DbServe(ij[1], ij[2]))
                  => /\ has(rsvps', u)
                     /\ rsvps'[u] = [user_id |-> u, full_name |-> h.fullName,
                                     guests_count |-> h.guestsCount]
                     /\ HandlerAt(ij)'.pc = "upsertRsvpRet"
                     /\ HandlerAt(ij)'.saved = rsvps'[u]
             /\ (h.pc = "upsertRsvpRet" /\ C13_Alone(ij) /\ Resume(ij[1], ij[2]))
                  => /\ ~has(sessions', u)
                     /\ out' = <<[to |-> u, kind |-> "Confirmed",
                                  args |-> <<h.saved.full_name, h.saved.guests_count>>]>>]_vars

\* the scenario ran to its end in part_000: card, begin, name, count
C13_Witness ==
  /\ variant = "mem" /\ delivered = 4
  /\ ~has(sessions, "U1")
  /\ has(rsvpStore, "U1")
  /\ out = <<[to |-> "U1", kind |-> "Confirmed",
              args |-> <<rsvpStore["U1"].fullName, rsvpStore["U1"].guestsCount>>]>>

\* the event is one the builds answer with silence: not a message, or a message
\* that is not text outside ASK_GIFT_SLIP, or neither text nor attachment in it
C14_Silent(e) ==
  \/ e.type # "message"
  \/ /\ e.msgType # "text"
     /\ ~(has(sessions, e.userId) /\ sessions[e.userId].step = "ASK_GIFT_SLIP")
  \/ /\ e.msgType \notin {"text", "image", "file"}
     /\ has(sessions, e.userId) /\ sessions[e.userId].step = "ASK_GIFT_SLIP"

\* C14: an event gets at most one reply; a text of an identified user gets
\* exactly one, sent at once or when its handler ends after a gateway call,
\* however that call ends; a silent event gets none and leaves the sessions.
C14_OneReplyPerEvent ==
  [][/\ \A e \in Events : \A f \in FlexOutcomes(<<e>>) :
          (/\ delivered' = delivered + 1 /\ e.userId \in Users
           /\ Webhook(<<e>>, f, MaxEvents))
          => LET h == handleEvent(Mem, e, f).h
             IN /\ Len(out') <= 1
                /\ IsTextEvent(e)
                     => \/ h = Resolved /\ Len(out') = 1 /\ out'[1].to = e.userId
                        \/ h.pc \in Calls /\ out' = <<>>
                /\ C14_Silent(e) => (out' = <<>> /\ sessions' = sessions)
     /\ \A ij \in Handlers(reqs) :
          (HandlerAt(ij).pc \in Calls \cup Answers
             /\ (DbError(ij[1], ij[2]) \/ Resume(ij[1], ij[2])))
          => /\ Len(out') = 1
             /\ out'[1].to = HandlerAt(ij).userId]_vars

\* the text is a flow-start command of the running build
C15_StartsFlow(text) ==
  IF variant = "db"
    THEN text \in {<<"W_BLESS">>, <<"W_BEGIN">>, <<"W_EDIT">>, <<"W_SLIP">>}
    ELSE text \in {<<"W_BLESS">>, <<"W_BEGIN">>, <<"W_EDIT">>}

\* C15: an event without user identity changes no session and no record and
\* starts no gateway call, and a flow-start command in it is answered by one
\* text asking to retry in a private conversation.
C15_NoIdentityNoState ==
  [][\A e \in Events : \A f \in FlexOutcomes(<<e>>) :
       (/\ delivered' = delivered + 1 /\ e.userId = NoUserId
        /\ Webhook(<<e>>, f, MaxEvents))
       => /\ sessions' = sessions
          /\ rsvps' = rsvps /\ rsvpStore' = rsvpStore
          /\ blessings' = blessings /\ blessingStore' = blessingStore
          /\ reqs' = reqs
          /\ (IsTextEvent(e) /\ C15_StartsFlow(normalizeText(e.text)))
               => /\ Len(out') = 1
                  /\ out'[1].kind \in {"NoUserId", "PrivateChatBlessing",
                                       "PrivateChatConfirm"}]_vars

\* the event is a static content request: with the cards loading it is
\* answered by a card
C16_CardRequest(e) ==
  LET r == handleEvent(Mem, e, TRUE)
  IN Len(r.out) = 1 /\ r.out[1].kind = "Flex"

\* C16: a static content request whose card cannot be loaded or parsed is
\* answered by one text failure notice and the webhook answers 200, not 500.
C16_CardFailureNotice ==
  [][\A e \in Events :
       (/\ delivered' = delivered + 1 /\ C16_CardRequest(e)
        /\ Webhook(<<e>>, FALSE, MaxEvents))
       => /\ Len(out') = 1
          /\ out'[1].kind = "FlexError"
          /\ res' = <<200>>]_vars

C17_InSlip(u) == has(sessions, u) /\ sessions[u].step = "ASK_GIFT_SLIP"

\* C17: in ASK_GIFT_SLIP an image or a file deletes the session, is answered by
\* one acknowledgement and writes nothing; a text is answered by the re-prompt
\* and leaves the session; and a session in ASK_GIFT_SLIP is deleted or changed
\* by no other step than the handling of such an attachment.
C17_SlipOnlyLeavesByAttachment ==
  [][/\ \A e \in Events :
          (/\ delivered' = delivered + 1 /\ e.type = "message" /\ C17_InSlip(e.userId)
           /\ Webhook(<<e>>, TRUE, MaxEvents))
          => LET u == e.userId
             IN /\ e.msgType \in {"image", "file"}
                     => /\ ~has(sessions', u)
                        /\ out' = <<[to |-> u, kind |-> "SlipThanks", args |-> <<>>]>>
                        /\ rsvps' = rsvps /\ blessings' = blessings /\ reqs' = reqs
                /\ e.msgType = "text"
                     => /\ sessions' = sessions
                        /\ out' = <<[to |-> u, kind |-> "SlipReprompt", args |-> <<>>]>>
     /\ \A u \in Users :
          (C17_InSlip(u) /\ (~has(sessions', u) \/ sessions'[u] # sessions[u]))
          => /\ ~has(sessions', u)
             /\ delivered' = delivered + 1
             /\ out' = <<[to |-> u, kind |-> "SlipThanks", args |-> <<>>]>>]_vars

\* the name threshold as the builds configure it
C18_MinName == IF variant = "db" THEN 2 ELSE 3

C18_ValidRecord(fullName, guestsCount) ==
  /\ StrLen(trim(fullName)) >= C18_MinName
  /\ guestsCount \in 1..C10_N

\* C18: in every reachable state a session in ASK_COUNT carries a fullName of
\* trimmed length at least the name threshold (2 in index.js, 3 in part_000),
\* every stored Confirmation Record has such a fullName and an integer
\* guestsCount in [1,N], and every stored Well-Wish Record has a message of
\* length at least 2.
C18_DataValid ==
  /\ \A u \in DOMAIN sessions :
       sessions[u].step = "ASK_COUNT"
       => StrLen(trim(SessName(sessions[u]))) >= C18_MinName
  /\ \A u \in DOMAIN rsvps :
       C18_ValidRecord(rsvps[u].full_name, rsvps[u].guests_count)
  /\ \A u \in DOMAIN rsvpStore :
       C18_ValidRecord(rsvpStore[u].fullName, rsvpStore[u].guestsCount)
  /\ \A k \in 1..Len(blessings) : StrLen(blessings[k].message) >= 2
  /\ \A u \in DOMAIN blessingStore :
       \A k \in 1..Len(blessingStore[u]) : StrLen(blessingStore[u][k].message) >= 2

\* a record at both limits of index.js is stored: the shortest name, the largest count
C18_Witness ==
  /\ variant = "db"
  /\ has(rsvps, "U1")
  /\ rsvps["U1"] = [user_id |-> "U1", full_name |-> <<"a", "b">>, guests_count |-> 50]

\* the session the edit command creates: ASK_NAME, nothing collected
C19_FreshSession ==
  IF variant = "db" THEN [step |-> "ASK_NAME", temp |-> <<>>]
  ELSE [step |-> "ASK_NAME"]

\* C19: the edit-confirmation command of a user without session creates a
\* session in ASK_NAME with nothing collected, record or no record, and leaves
\* the stores as they are; a record changes only when a valid count answer
\* completes the flow (index.js: when the database serves the upsertRsvp call
\* of such an answer; part_000: in the step that answers a count in ASK_COUNT).
C19_EditKeepsRecord ==
  [][/\ \A e \in Events :
          (/\ delivered' = delivered + 1 /\ IsTextEvent(e) /\ e.userId \in Users
           /\ ~has(sessions, e.userId)
           /\ normalizeText(e.text) = <<"W_EDIT">>
           /\ Webhook(<<e>>, TRUE, MaxFlowEvents))
          => /\ has(sessions', e.userId)
             /\ sessions'[e.userId] = C19_FreshSession
             /\ rsvps' = rsvps /\ rsvpStore' = rsvpStore
             /\ reqs' = reqs
             /\ out' = <<[to |-> e.userId, kind |-> "AskNameAgain", args |-> <<>>]>>
     /\ rsvps' # rsvps
          => \E ij \in Handlers(reqs) :
               /\ HandlerAt(ij).pc = "upsertRsvp"
               /\ HandlerAt(ij).guestsCount \in 1..C10_N
               /\ DbServe(ij[1], ij[2])
     /\ rsvpStore' # rsvpStore
          => \E u \in Users :
               /\ has(sessions, u) /\ sessions[u].step = "ASK_COUNT"
               /\ ~has(sessions', u)
               /\ Len(out') = 1 /\ out'[1].kind = "Confirmed"]_vars

\* an edit was started on an existing record and went as far as the count
\* question: the old record is still the stored one
C19_Witness ==
  /\ has(sessions, "U1") /\ sessions["U1"].step = "ASK_COUNT"
  /\ reqs = <<>>
  /\ \/ has(rsvps, "U1") /\ rsvps["U1"] = SeedRow
     \/ has(rsvpStore, "U1")

\* C20: for an identified user without session, a text that starts no flow (a
\* static content request, whether its card loads or not, the help command, or
\* unmatched text) leaves the sessions and both stores unchanged, starts no
\* gateway call, and gets exactly one reply.
C20_IdleRequestsKeepState ==
  [][\A e \in Events : \A f \in FlexOutcomes(<<e>>) :
       (/\ delivered' = delivered + 1 /\ IsTextEvent(e) /\ e.userId \in Users
        /\ ~has(sessions, e.userId)
        /\ ~C15_StartsFlow(normalizeText(e.text))
        /\ Webhook(<<e>>, f, MaxEvents))
       => /\ sessions' = sessions
          /\ rsvps' = rsvps /\ rsvpStore' = rsvpStore
          /\ blessings' = blessings /\ blessingStore' = blessingStore
          /\ reqs' = reqs
          /\ Len(out') = 1 /\ out'[1].to = e.userId]_vars

\* everything the program holds about user b: session, Confirmation Record,
\* Well-Wish Records
C21_Session(sess, b) == IF has(sess, b) THEN <<sess[b]>> ELSE <<>>
C21_Rows(b) == SelectSeq(blessings, LAMBDA r : r.user_id = b)

\* the step leaves all of user b's data as it was
C21_Untouched(b) ==
  /\ C21_Session(sessions', b) = C21_Session(sessions, b)
  /\ C21_Session(rsvps', b) = C21_Session(rsvps, b)
  /\ C21_Session(rsvpStore', b) = C21_Session(rsvpStore, b)
  /\ C21_Session(blessingStore', b) = C21_Session(blessingStore, b)
  /\ C21_Rows(b)' = C21_Rows(b)

\* C21: a step that handles an event of user a (its synchronous part, the
\* database serving or failing its gateway call, or its resumption), whatever
\* events of other users are handled in between, leaves the session, the
\* Confirmation Record and the Well-Wish Records of every other user untouched.
C21_UserIsolation ==
  [][/\ \A a \in Users : \A t \in TwoTexts :
          (/\ delivered' = delivered + 1
           /\ Webhook(<<TextEvent(a, t)>>, TRUE, MaxTwoEvents))
          => \A b \in Users \ {a} : C21_Untouched(b)
     /\ \A ij \in Handlers(reqs) :
          (HandlerAt(ij).pc \in Calls \cup Answers
             /\ (DbServe(ij[1], ij[2]) \/ DbError(ij[1], ij[2]) \/ Resume(ij[1], ij[2])))
          => \A b \in Users \ {HandlerAt(ij).userId} : C21_Untouched(b)]_vars

\* U1 completed a well-wish while U2 was in the middle of one: U2's session stays
C21_Witness ==
  /\ has(sessions, "U2") /\ sessions["U2"].step = "ASK_BLESSING"
  /\ ~has(sessions, "U1")
  /\ out = <<[to |-> "U1", kind |-> "BlessingThanks", args |-> <<>>]>>

====
